---- MODULE Spec2Model ----
(***************************************************************************)
(* Chamber-pressure solver of the hybrid-rocket model                      *)
(* (src/Optimization/optimization.py with src/Performance and              *)
(* src/Injection): the starting-guess scan, the damped Newton iteration    *)
(* and the sweep over the grid of geometry ratios.                         *)
(*                                                                         *)
(* Numbers.  The program computes in floating point; the model computes    *)
(* in integers.  Pressures and residuals are whole pascals, a quotient is  *)
(* rounded to the nearest integer (RoundDiv) or floored (\div, where the   *)
(* text says so), a square root is floored (ISqrt).  k_Newton is kept in   *)
(* twentieths (the program changes it in steps of 0.05), gamma in tenths.  *)
(* Areas are kept in units of pi/4 square metres (with the throat          *)
(* diameter Dt = 1), which every area of the program is a rational         *)
(* multiple of.  A Python exception is the field exc of a result.          *)
(***************************************************************************)
EXTENDS Integers, Sequences, FiniteSets, TLC

Abs(x) == IF x < 0 THEN -x ELSE x

Max(x, y) == IF x >= y THEN x ELSE y

Min(x, y) == IF x <= y THEN x ELSE y

Sign(x) == IF x < 0 THEN -1 ELSE IF x > 0 THEN 1 ELSE 0

\* num/den rounded to the nearest integer (den /= 0)
RoundDiv(num, den) ==
    LET n == IF den < 0 THEN -num ELSE num
        d == Abs(den)
    IN  (2 * n + d) \div (2 * d)

RECURSIVE SqrtIter(_, _, _)
SqrtIter(x, lo, hi) ==
    IF lo >= hi THEN lo
    ELSE LET mid == (lo + hi + 1) \div 2
         IN  IF mid * mid <= x THEN SqrtIter(x, mid, hi)
             ELSE SqrtIter(x, lo, mid - 1)

\* floor of the square root of x >= 0
ISqrt(x) == SqrtIter(x, 0, Min(x, 46340))

RECURSIVE Pow(_, _)
Pow(x, n) == IF n = 0 THEN 1 ELSE x * Pow(x, n - 1)

(***************************************************************************)
(* Program constants                                                       *)
(***************************************************************************)
\* the residual of a failed evaluation (performance_singlepoint.py:181)
Sentinel == 100000000

\* maxit of get_pressure (optimization.py:122)
MAXIT == 1000

\* dpc of get_pressure, in Pa (optimization.py:124)
dpc == 10

\* Dt of full_range_simulation (optimization.py:253)
Dt == 1

\* the default gamma0 = 1.3 of the three functions, in tenths
GammaDefault == 13

(***************************************************************************)
(* Bounds of the model                                                     *)
(***************************************************************************)
\* samples of each of the two linspace segments of the scan (the program: 100)
ScanN == 3

\* the iteration cap the exhaustive specification explores (the program: MAXIT)
MaxIt == 2

(***************************************************************************)
(* The property oracle (CoolProp) as Injector.massflow queries it.  A      *)
(* lookup answers a value or signals out-of-domain (ValueError): a         *)
(* single-phase (P,T) lookup on the saturation line, a saturated (T,Q)     *)
(* lookup at a temperature that has no saturation state (at or above the   *)
(* critical temperature).                                                  *)
(***************************************************************************)
Val(v) == [ood |-> FALSE, v |-> v]

OutOfDomain == [ood |-> TRUE, v |-> 0]

\* One deterministic fluid: below its critical temperature Tc (in K) the
\* saturation pressure is 50 Pa, liquid above it, vapour below, and no
\* single-phase state exactly on the saturation line; from Tc on the fluid is
\* supercritical at every pressure.
FluidSat == [hL |-> 0, hV |-> 8, dL |-> 2, dV |-> 1, pV |-> 50, Tc |-> 310]

PropsSI_PT(prop, p, T) ==
    IF T >= FluidSat.Tc
    THEN Val(IF prop = "H" THEN FluidSat.hV ELSE FluidSat.dV)
    ELSE IF p = FluidSat.pV THEN OutOfDomain
    ELSE IF p > FluidSat.pV
         THEN Val(IF prop = "H" THEN FluidSat.hL ELSE FluidSat.dL)
         ELSE Val(IF prop = "H" THEN FluidSat.hV ELSE FluidSat.dV)

\* a saturated lookup: v is the fluid's saturated value
PropsSI_TQ(v, T) == IF T >= FluidSat.Tc THEN OutOfDomain ELSE Val(v)

\* the answers of the eight lookups of one massflow call
Lookups(p1, p2, T) ==
    [h1 |-> PropsSI_PT("H", p1, T), h2 |-> PropsSI_PT("H", p2, T),
     d2 |-> PropsSI_PT("D", p2, T),
     hL |-> PropsSI_TQ(FluidSat.hL, T), hV |-> PropsSI_TQ(FluidSat.hV, T),
     dL |-> PropsSI_TQ(FluidSat.dL, T), dV |-> PropsSI_TQ(FluidSat.dV, T),
     pV |-> PropsSI_TQ(FluidSat.pV, T)]

(***************************************************************************)
(* Injector.massflow (PyInjection.py:27-82).  pr holds the oracle's        *)
(* answers.  The result carries np: whether the flux is a numpy scalar     *)
(* (it is the product with np.sqrt when p1 > p2, the int 0 otherwise),     *)
(* and exc: the ValueError of a lookup made outside the three try blocks   *)
(* or inside one of their handlers.                                        *)
(***************************************************************************)
\* the flow regime with the downstream test against the upstream pressure
regime_upstream(p1, p2, pV) ==
    IF p1 > p2 THEN (IF pV > p1 THEN "Dyer" ELSE "SPI") ELSE "none"

\* the branch massflow takes (lines 50, 68, 72, 78)
regime(p1, p2, pV) ==
    IF p1 > p2 THEN (IF pV > p2 THEN "Dyer" ELSE "SPI") ELSE "none"

massflow(p1, p2, T, cD, pr) ==
    LET h1 == IF pr.h1.ood THEN pr.hL ELSE pr.h1
        h2 == IF pr.h2.ood THEN pr.hV ELSE pr.h2
        d2 == IF pr.d2.ood THEN pr.dV ELSE pr.d2
        dSPI == pr.dL
        pV == pr.pV
        mdot_SPI == cD * ISqrt(2 * dSPI.v * (p1 - p2))
        mdot_HEM == cD * d2.v * ISqrt(2 * Abs(h1.v - h2.v))
        \* k = sqrt((p1 - p2)/(pV - p2)), in hundredths
        k == ISqrt((10000 * (p1 - p2)) \div (pV.v - p2))
        branch == regime(p1, p2, pV.v)
    IN  IF h1.ood \/ h2.ood \/ d2.ood \/ dSPI.ood \/ pV.ood
        THEN [exc |-> "ValueError", mdot |-> 0, np |-> FALSE]
        ELSE IF branch = "Dyer"
        THEN [exc |-> "none",
              mdot |-> (k * mdot_SPI + 100 * mdot_HEM) \div (k + 100),
              np |-> TRUE]
        ELSE IF branch = "SPI"
        THEN [exc |-> "none", mdot |-> mdot_SPI, np |-> TRUE]
        ELSE [exc |-> "none", mdot |-> 0, np |-> FALSE]

(***************************************************************************)
(* ER (performance_singlepoint.py:17-23): the expansion ratio adapted to   *)
(* pe/pc.  Its value in the supercritical branch is an irrational function *)
(* of g and pe/pc that nothing in the solver computes with: the model      *)
(* keeps it symbolic, as the arguments it was computed from.  With g = 0   *)
(* (the gamma of a failed evaluation) the exponent 2/g of that branch is a *)
(* Python division by zero.                                                *)
(***************************************************************************)
EpsNum(v) == [sym |-> FALSE, v |-> v, g |-> 0, pe |-> 0, pc |-> 0]

EpsSym(g, pe, pc) == [sym |-> TRUE, v |-> 0, g |-> g, pe |-> pe, pc |-> pc]

\* (2/(g+1))**(g/(g-1)) in thousandths, for the gammas of the model
\* (0, 1.2, 1.3 in tenths) and 1.4 for any other
pe_pc_crit(g) ==
    IF g = 0 THEN 1000 ELSE IF g = 12 THEN 564 ELSE IF g = 13 THEN 545 ELSE 528

ER(g, pe, pc) ==
    IF 1000 * pe < pe_pc_crit(g) * pc
    THEN IF g = 0
         THEN [exc |-> "ZeroDivisionError", eps |-> EpsNum(0)]
         ELSE [exc |-> "none", eps |-> EpsSym(g, pe, pc)]
    ELSE [exc |-> "none", eps |-> EpsNum(1)]

(***************************************************************************)
(* The equilibrium oracle: what CEA_py.runCEA (CEA_py.py:69-84) returns    *)
(* for one call, the empty list (ok = FALSE) or [Tc, M, g, cs, cfvac].     *)
(***************************************************************************)
CEAFail == [ok |-> FALSE, Tc |-> 0, MW |-> 0, gamma |-> 0, cs |-> 0, CF_vac |-> 0]

CEAOk(cs) == [ok |-> TRUE, Tc |-> 3000, MW |-> 25, gamma |-> 12, cs |-> cs, CF_vac |-> 2]

\* the characteristic velocities a successful call may answer
CsSet == {3}

CEAAnswers == {CEAFail} \cup {CEAOk(cs) : cs \in CsSet}

(***************************************************************************)
(* The line-loss model (Line_losses.linelosses, not part of the sources):  *)
(* a constant pressure drop, zero in the reference behaviour.              *)
(***************************************************************************)
linelosses == 0

(***************************************************************************)
(* A float of the program that may be non-finite: MR in thousandths.       *)
(***************************************************************************)
Fin(v) == [k |-> "fin", v |-> v]

NaN == [k |-> "nan", v |-> 0]

Inf == [k |-> "inf", v |-> 0]

(***************************************************************************)
(* calculate_performance (performance_singlepoint.py:25-133).  npIn: the   *)
(* areas are numpy scalars (the ranges of the sweep are numpy arrays);     *)
(* cea: the oracle's answer, should the function call it.  A division by   *)
(* zero of two numpy scalars gives inf or nan and raises nothing; of two   *)
(* Python floats it raises ZeroDivisionError.  CF, Ivac and Is, products   *)
(* of the values kept here with eps_out, are left out.                     *)
(***************************************************************************)
\* the chemistry with the failure flag left at 0
chemistry_unflagged(failed, cea) ==
    [Tc |-> IF failed THEN 0 ELSE cea.Tc, MW |-> IF failed THEN 0 ELSE cea.MW,
     gamma |-> IF failed THEN 0 ELSE cea.gamma,
     cs |-> IF failed THEN 0 ELSE cea.cs,
     CF_vac |-> IF failed THEN 0 ELSE cea.CF_vac, flag_performance |-> 0]

\* the five values taken from the oracle's answer and the flag (lines
\* 101-125); failed: one of the two handlers ran
chemistry(failed, cea) ==
    [Tc |-> IF failed THEN 0 ELSE cea.Tc, MW |-> IF failed THEN 0 ELSE cea.MW,
     gamma |-> IF failed THEN 0 ELSE cea.gamma,
     cs |-> IF failed THEN 0 ELSE cea.cs,
     CF_vac |-> IF failed THEN 0 ELSE cea.CF_vac,
     flag_performance |-> IF failed THEN 1 ELSE 0]

\* the function from line 83 on: er is the expansion ratio it settled on (or
\* the exception of ER), inj the injector's flux (or the exception of
\* massflow)
performance(er, p_inj, inj, Ainj, Aport, Ab, a, n, rho_fuel, npIn, cea) ==
    LET eps_out == er.eps
        mdot_ox == inj.mdot * Ainj
        isNp == inj.np \/ npIn
        Gox == mdot_ox \div Aport
        r == a * Pow(Gox, n)
        mdot_fuel == rho_fuel * Ab * r
        mdot == mdot_ox + mdot_fuel
        zerodiv == mdot_fuel = 0 /\ ~isNp
        MR == IF mdot_fuel /= 0 THEN Fin((1000 * mdot_ox) \div mdot_fuel)
              ELSE IF mdot_ox = 0 THEN NaN ELSE Inf
        called == ~zerodiv
        failed == zerodiv \/ ~cea.ok
    IN  IF er.exc /= "none" \/ inj.exc /= "none"
        THEN [exc |-> IF er.exc /= "none" THEN er.exc ELSE inj.exc,
              p_inj |-> 0, mdot_ox |-> 0, mdot_fuel |-> 0,
              mdot |-> 0, Gox |-> 0, r |-> 0, MR |-> Fin(0), Tc |-> 0,
              MW |-> 0, gamma |-> 0, eps_out |-> eps_out, cs |-> 0,
              CF_vac |-> 0, flag_performance |-> 0, called |-> FALSE]
        ELSE [exc |-> "none", p_inj |-> p_inj, mdot_ox |-> mdot_ox,
              mdot_fuel |-> mdot_fuel, mdot |-> mdot, Gox |-> Gox, r |-> r,
              MR |-> IF failed THEN Fin(0) ELSE MR,
              eps_out |-> eps_out, called |-> called]
             @@ chemistry(failed, cea)

calculate_performance(Ainj, Aport, Ab, eps, ptank, Ttank, pc, CD, a, n, rho_fuel, pamb, gamma0, npIn, cea) ==
    performance(IF eps.adapt THEN ER(gamma0, pamb, pc)
                ELSE [exc |-> "none", eps |-> EpsNum(eps.v)],
                ptank - linelosses,
                massflow(ptank - linelosses, pc, Ttank, CD,
                         Lookups(ptank - linelosses, pc, Ttank)),
                Ainj, Aport, Ab, a, n, rho_fuel, npIn, cea)

(***************************************************************************)
(* pressure_fun (performance_singlepoint.py:136-182)                       *)
(***************************************************************************)
\* the residual computed whatever the flag
residual_unflagged(p, At, pc) ==
    IF p.exc /= "none" THEN [exc |-> p.exc, Fpc |-> 0]
    ELSE [exc |-> "none", Fpc |-> (p.mdot * p.cs) \div At - pc]

\* the residual of the evaluation p at pc (lines 178-182)
residual(p, At, pc) ==
    IF p.exc /= "none" THEN [exc |-> p.exc, Fpc |-> 0]
    ELSE [exc |-> "none",
          Fpc |-> IF p.flag_performance = 0
                  THEN (p.mdot * p.cs) \div At - pc
                  ELSE Sentinel]

pressure_fun(Ainj, Aport, At, Ab, eps, ptank, Ttank, pc, CD, a, n, rho_fuel, pamb, gamma0, npIn, cea) ==
    residual(calculate_performance(Ainj, Aport, Ab, eps, ptank, Ttank, pc,
                                   CD, a, n, rho_fuel, pamb, gamma0, npIn, cea),
             At, pc)

(***************************************************************************)
(* starting_pressure (optimization.py:10-73).  outs[i] is the equilibrium  *)
(* oracle's answer at the i-th sample.                                     *)
(***************************************************************************)
\* np.linspace(lo, hi, num)
linspace(lo, hi, num) ==
    [i \in 1..num |-> lo + RoundDiv((i - 1) * (hi - lo), num - 1)]

\* the scan grid (optimization.py:44-51), with ScanN samples a segment
pc_range(ptank, pamb) ==
    LET pc_range_a == linspace(IF pamb <= 0 THEN 1 ELSE pamb,
                               RoundDiv(8 * ptank, 10), ScanN)
        pc_range_b == linspace(RoundDiv(8 * ptank, 10), ptank, ScanN)
    IN  pc_range_a \o Tail(pc_range_b)

\* the residuals of the samples range[1..i] (optimization.py:53-60): an
\* exception of pressure_fun is caught and leaves the sentinel
RECURSIVE scan(_, _, _, _, _, _, _, _, _, _, _, _, _, _, _, _, _)
scan(i, range, Ainj, Aport, At, Ab, eps, ptank, Ttank, CD, a, n, rho_fuel, pamb, gamma0, npIn, outs) ==
    IF i = 0 THEN <<>>
    ELSE LET f == pressure_fun(Ainj, Aport, At, Ab, eps, ptank, Ttank,
                               range[i], CD, a, n, rho_fuel, pamb, gamma0,
                               npIn, outs[i])
         IN  Append(scan(i - 1, range, Ainj, Aport, At, Ab, eps, ptank, Ttank,
                         CD, a, n, rho_fuel, pamb, gamma0, npIn, outs),
                    IF f.exc /= "none" THEN Sentinel ELSE f.Fpc)

\* the decision with a sign test that takes a zero residual for a change of
\* sign
best_sample_strict(range, Fpcs) ==
    LET mask == {i \in 1..Len(range) : Fpcs[i] /= Sentinel}
        i_min == CHOOSE i \in mask :
                    \A j \in mask : \/ Abs(Fpcs[i]) < Abs(Fpcs[j])
                                    \/ Abs(Fpcs[i]) = Abs(Fpcs[j]) /\ i <= j
        single == \/ \A i \in mask : Fpcs[i] > 0
                  \/ \A i \in mask : Fpcs[i] < 0
    IN  IF mask = {}
        THEN [exc |-> "ValueError", pc_best |-> 0]
        ELSE [exc |-> "none", pc_best |-> IF single THEN 0 ELSE range[i_min]]

\* the decision on the residuals Fpcs of the samples range (62-73)
best_sample(range, Fpcs) ==
    LET mask == {i \in 1..Len(range) : Fpcs[i] /= Sentinel}
        \* np.argmin: the first index of the least |Fpc|
        i_min == CHOOSE i \in mask :
                    \A j \in mask : \/ Abs(Fpcs[i]) < Abs(Fpcs[j])
                                    \/ Abs(Fpcs[i]) = Abs(Fpcs[j]) /\ i <= j
        single == \/ \A i \in mask : Abs(Fpcs[i]) = Fpcs[i]
                  \/ \A i \in mask : -Abs(Fpcs[i]) = Fpcs[i]
    IN  IF mask = {}
        THEN [exc |-> "ValueError", pc_best |-> 0]   \* argmin of an empty array
        ELSE [exc |-> "none", pc_best |-> IF single THEN 0 ELSE range[i_min]]

starting_pressure(Ainj, Aport, At, Ab, eps, ptank, Ttank, CD, a, n, rho_fuel, pamb, gamma0, npIn, outs) ==
    LET range == pc_range(ptank, pamb)
    IN  best_sample(range,
                    scan(Len(range), range, Ainj, Aport, At, Ab, eps, ptank,
                         Ttank, CD, a, n, rho_fuel, pamb, gamma0, npIn, outs))

(***************************************************************************)
(* The Newton update of get_pressure (optimization.py:146-158).  Floats    *)
(* reach 1e10 here (the sentinel divided by 0.01); the model saturates a   *)
(* magnitude at Huge, far outside every pressure, and divides numbers of   *)
(* the sentinel's size after scaling both down, as a float division would  *)
(* keep their leading digits.                                              *)
(***************************************************************************)
Huge == 10 * Sentinel

SatMul(x, y) ==
    IF x = 0 \/ y = 0 THEN 0
    ELSE IF Abs(x) > Huge \div Abs(y) THEN Sign(x) * Sign(y) * Huge
    ELSE x * y

\* the step with the difference Fdpc - Fpc taken for the derivative
newton_step_undivided(k_Newton, Fpc, Fdpc) ==
    LET dnum == Fdpc - Fpc
        big == Abs(Fpc) >= 100000 \/ Abs(dnum) >= 100000
        s == IF big THEN 10000 ELSE 1
        Fs == RoundDiv(Fpc, s)
        ds == RoundDiv(dnum, s)
    IN  IF dnum = 0 THEN SatMul(5 * k_Newton, Fpc)
        ELSE IF ds = 0 THEN Sign(k_Newton) * Sign(Fpc) * Sign(dnum) * Huge
        ELSE RoundDiv(k_Newton * Fs, 20 * ds)

\* the step with 1 in place of 0.01 for a zero derivative
newton_step_unit_slope(k_Newton, Fpc, Fdpc) ==
    LET dnum == Fdpc - Fpc
        big == Abs(Fpc) >= 100000 \/ Abs(dnum) >= 100000
        s == IF big THEN 10000 ELSE 1
        Fs == RoundDiv(Fpc, s)
        ds == RoundDiv(dnum, s)
    IN  IF dnum = 0 THEN RoundDiv(k_Newton * Fpc, 20)
        ELSE IF ds = 0 THEN Sign(k_Newton) * Sign(Fpc) * Sign(dnum) * Huge
        ELSE RoundDiv(k_Newton * Fs * dpc, 20 * ds)

\* k_Newton*Fpc/dFpc with dFpc = (Fdpc - Fpc)/dpc, or 0.01 when that is 0
newton_step(k_Newton, Fpc, Fdpc) ==
    LET dnum == Fdpc - Fpc
        big == Abs(Fpc) >= 100000 \/ Abs(dnum) >= 100000
        s == IF big THEN 10000 ELSE 1
        Fs == RoundDiv(Fpc, s)
        ds == RoundDiv(dnum, s)
    IN  IF dnum = 0 THEN SatMul(5 * k_Newton, Fpc)
        ELSE IF ds = 0 THEN Sign(k_Newton) * Sign(Fpc) * Sign(dnum) * Huge
        ELSE RoundDiv(k_Newton * Fs * dpc, 20 * ds)

\* the band check with 1.5*pamb alone as the low-side fallback
band_ambient_fallback(pc_new, k_Newton, ptank, pamb) ==
    IF pc_new <= pamb
    THEN [pc |-> RoundDiv(3 * pamb, 2), k_Newton |-> k_Newton - 1]
    ELSE IF pc_new >= ptank
    THEN [pc |-> RoundDiv(3 * ptank, 4), k_Newton |-> k_Newton - 1]
    ELSE [pc |-> pc_new, k_Newton |-> k_Newton]

\* the band check (optimization.py:153-158): the new pc and k_Newton
band(pc_new, k_Newton, ptank, pamb) ==
    IF pc_new <= pamb
    THEN [pc |-> Max(RoundDiv(2 * ptank, 10), RoundDiv(3 * pamb, 2)),
          k_Newton |-> k_Newton - 1]
    ELSE IF pc_new >= ptank
    THEN [pc |-> RoundDiv(3 * ptank, 4), k_Newton |-> k_Newton - 1]
    ELSE [pc |-> pc_new, k_Newton |-> k_Newton]

\* the tolerance with the sentinel taken for a converged residual
tolerance_met_sentinel(Fpc) == 10 * Abs(Fpc) <= 1 \/ Fpc = Sentinel

\* the loop condition of get_pressure (optimization.py:142): |Fpc| > 1e-1
tolerance_met(Fpc) == 10 * Abs(Fpc) <= 1

(***************************************************************************)
(* State                                                                   *)
(***************************************************************************)
VARIABLES
    cfg,               \* the arguments of full_range_simulation and the oracle's regime
    status,            \* "running", "returned", or "raised": an exception left the sweep
    ind,               \* <<ind_Dport, ind_Dinj, ind_Lc>> of the grid point in hand
    at,                \* where that point's solve stands: "call", "init", "loop"
    pc, Fpc, n_iter, maxit, k_Newton,   \* locals of get_pressure
    gamma0,            \* the seed, reassigned by get_pressure and by the sweep
    flag_performance,  \* the flag of the sweep's own evaluation
    pc_array, Fpc_array, MR_array, gamma_array, flag_array,
    pc_start,          \* history: what starting_pressure returned
    first_flag,        \* history: the flag of get_pressure's first evaluation
    n_eval,            \* history: evaluator calls of get_pressure after the scan
    re_from,           \* history: the pc a solve without scan was started at, or 0
    perf_out,          \* what a direct call of calculate_performance returned
    inj_out,           \* what a direct call of Injector.massflow returned
    sp_out,            \* what starting_pressure decided on given residuals
    step_out           \* what a direct evaluation of the Newton step gave

vars == <<cfg, status, ind, at, pc, Fpc, n_iter, maxit, k_Newton, gamma0,
          flag_performance, pc_array, Fpc_array, MR_array, gamma_array,
          flag_array, pc_start, first_flag, n_eval, re_from, perf_out,
          inj_out, sp_out, step_out>>

\* the three ranges of the sweep (optimization.py:172)
Dport_Dt_range == <<1>>

Dinj_Dt_range == <<1>>

Lc_Dt_range == <<1, 2>>

Cells == (1..Len(Dport_Dt_range)) \X (1..Len(Dinj_Dt_range)) \X (1..Len(Lc_Dt_range))

FirstCell == <<1, 1, 1>>

LastCell == <<Len(Dport_Dt_range), Len(Dinj_Dt_range), Len(Lc_Dt_range)>>

\* the next triple of the three nested loops (optimization.py:254-256)
NextCell(c) ==
    IF c[3] < Len(Lc_Dt_range) THEN <<c[1], c[2], c[3] + 1>>
    ELSE IF c[2] < Len(Dinj_Dt_range) THEN <<c[1], c[2] + 1, 1>>
    ELSE <<c[1] + 1, 1, 1>>

\* the areas of a grid point (optimization.py:258-261), in units of pi/4
Aport(c) == Dport_Dt_range[c[1]] * Dport_Dt_range[c[1]]

Ainj(c) == Dinj_Dt_range[c[2]] * Dinj_Dt_range[c[2]]

At == Dt * Dt

Ab(c) == 4 * Dport_Dt_range[c[1]] * Lc_Dt_range[c[3]]

EpsAdapt == [adapt |-> TRUE, v |-> 0]

EpsGiven(v) == [adapt |-> FALSE, v |-> v]

\* the evaluator of the solver: lin.on = FALSE is the program's pressure_fun,
\* lin.on = TRUE the linear residual k*(pc - pc_true) put in its place
NoLin == [on |-> FALSE, k |-> 0, pc_true |-> 0]

Linear(k, pc_true) == [on |-> TRUE, k |-> k, pc_true |-> pc_true]

\* The reference call: vacuum, a given expansion ratio, numpy ranges (as
\* the GUI and the script call the sweep), an oracle free at each call.
Reference ==
    [ptank |-> 100, pamb |-> 0, eps |-> EpsGiven(2), Ttank |-> 288, CD |-> 1,
     a |-> 1, n |-> 1, rho_fuel |-> 1, gamma0 |-> GammaDefault, npIn |-> TRUE,
     oracle |-> "any", failsAt |-> {}, failsSeed |-> {}, itcap |-> MaxIt,
     lin |-> NoLin]

\* The inputs explored: the reference call and its variations.  pamb: at
\* two thirds of the tank pressure or more, and above the tank pressure;
\* eps: adapted; the ranges: Python floats; oracle: "fails" fails every
\* call ("failsLater" answers the scan freely and fails every later call,
\* "answers" gives every call the same successful answer).
Variations ==
    {Reference, [Reference EXCEPT !.pamb = 70],
     [Reference EXCEPT !.pamb = 120], [Reference EXCEPT !.eps = EpsAdapt],
     [Reference EXCEPT !.npIn = FALSE]}

Configs == Variations \cup {[c EXCEPT !.oracle = "fails"] : c \in Variations}

\* the answers the equilibrium oracle may give to a call
Answers(scanning) ==
    IF cfg.oracle = "fails" THEN {CEAFail}
    ELSE IF cfg.oracle = "failsLater" /\ ~scanning THEN {CEAFail}
    ELSE IF cfg.oracle = "answers" THEN {CEAOk(cs) : cs \in CsSet}
    ELSE IF cfg.oracle = "function" THEN {CEAFail}
    ELSE CEAAnswers

\* the answer to a call at chamber pressure p under the seed g: the one drawn
\* for the call or, for an oracle that is a function of its inputs
\* (oracle = "function"), the one the inputs fix: no result at the pressures
\* of failsAt and under the seeds of failsSeed
runCEA(p, g, cea) ==
    IF cfg.oracle = "function"
    THEN IF p \in cfg.failsAt \/ g \in cfg.failsSeed
         THEN CEAFail
         ELSE CEAOk(CHOOSE cs \in CsSet : TRUE)
    ELSE cea

ZeroArray == [c \in Cells |-> 0]

\* perf_out, inj_out, sp_out, step_out before any direct call
NoCall == [made |-> FALSE]

InitWith(c) ==
    /\ cfg = c
    /\ status = "running"
    /\ ind = FirstCell
    /\ at = "call"
    /\ pc = 0 /\ Fpc = 0 /\ n_iter = 0 /\ maxit = 0 /\ k_Newton = 20
    /\ gamma0 = c.gamma0
    /\ flag_performance = 0
    /\ pc_array = ZeroArray /\ Fpc_array = ZeroArray
    /\ MR_array = [x \in Cells |-> Fin(0)] /\ gamma_array = ZeroArray
    /\ flag_array = [x \in Cells |-> 100]
    /\ pc_start = 0 /\ first_flag = 0 /\ n_eval = 0 /\ re_from = 0
    /\ perf_out = NoCall /\ inj_out = NoCall /\ sp_out = NoCall
    /\ step_out = NoCall

Init == \E c \in Configs : InitWith(c)

\* calculate_performance and pressure_fun at the grid point in hand
perf(p, g, cea) ==
    calculate_performance(Ainj(ind), Aport(ind), Ab(ind), cfg.eps, cfg.ptank,
                          cfg.Ttank, p, cfg.CD, cfg.a, cfg.n, cfg.rho_fuel,
                          cfg.pamb, g, cfg.npIn, runCEA(p, g, cea))

\* the linear residual standing in for pressure_fun
stand_in(p) == [exc |-> "none", Fpc |-> cfg.lin.k * (p - cfg.lin.pc_true)]

pfun(p, g, cea) ==
    IF cfg.lin.on THEN stand_in(p)
    ELSE pressure_fun(Ainj(ind), Aport(ind), At, Ab(ind), cfg.eps, cfg.ptank,
                      cfg.Ttank, p, cfg.CD, cfg.a, cfg.n, cfg.rho_fuel,
                      cfg.pamb, g, cfg.npIn, runCEA(p, g, cea))

\* starting_pressure at the grid point in hand
spfun(outs) ==
    IF cfg.lin.on
    THEN best_sample(pc_range(cfg.ptank, cfg.pamb),
                     [i \in 1..(2 * ScanN - 1) |->
                        stand_in(pc_range(cfg.ptank, cfg.pamb)[i]).Fpc])
    ELSE starting_pressure(Ainj(ind), Aport(ind), At, Ab(ind), cfg.eps,
                           cfg.ptank, cfg.Ttank, cfg.CD, cfg.a, cfg.n,
                           cfg.rho_fuel, cfg.pamb, gamma0, cfg.npIn,
                           [i \in 1..(2 * ScanN - 1) |->
                              runCEA(pc_range(cfg.ptank, cfg.pamb)[i], gamma0,
                                     outs[i])])

Raise ==
    /\ status' = "raised"
    /\ UNCHANGED <<ind, at, pc, Fpc, n_iter, k_Newton, gamma0,
                   flag_performance, pc_array, Fpc_array, MR_array,
                   gamma_array, flag_array, pc_start, first_flag, n_eval,
                   re_from>>

(***************************************************************************)
(* get_pressure, entry and scan (optimization.py:120-131)                  *)
(***************************************************************************)
\* start_count with the cap itself as the mark of a zero guess
start_count_at_cap(pc_best, cap) == IF pc_best = 0 THEN cap ELSE 0

\* n_iter once the scan has answered pc_best (121, 129-130)
start_count(pc_best, cap) == IF pc_best = 0 THEN cap + 1 ELSE 0

GetPressureScan ==
    /\ status = "running" /\ at = "call"
    /\ \E outs \in [1..(2 * ScanN - 1) -> Answers(TRUE)] :
       \E sp \in {spfun(outs)} :
         /\ maxit' = cfg.itcap
         /\ IF sp.exc /= "none"
            THEN /\ status' = "raised"
                 /\ pc_start' = 0
                 /\ UNCHANGED <<at, pc, Fpc, n_iter>>
            ELSE /\ status' = status
                 /\ pc_start' = sp.pc_best
                 /\ pc' = sp.pc_best
                 /\ n_iter' = start_count(sp.pc_best, cfg.itcap)
                 /\ IF sp.pc_best = 0
                    THEN Fpc' = 0 /\ at' = "loop"
                    ELSE Fpc' = Fpc /\ at' = "init"
    /\ k_Newton' = 20
    /\ first_flag' = 0 /\ n_eval' = 0
    /\ UNCHANGED <<cfg, ind, gamma0, flag_performance, pc_array, Fpc_array,
                   MR_array, gamma_array, flag_array, re_from, perf_out,
                   inj_out, sp_out,
                   step_out>>

(***************************************************************************)
(* get_pressure, the evaluation at the starting guess (133-139)            *)
(***************************************************************************)
\* the first evaluation with the residual taken at the displaced pressure
first_evaluation_displaced(c1, c2) ==
    LET p == perf(pc, gamma0, c1)
        f == pfun(pc + dpc, p.gamma, c2)
    IN  IF p.exc /= "none" \/ f.exc /= "none"
        THEN [exc |-> "ZeroDivisionError", gamma0 |-> gamma0, Fpc |-> Fpc,
              flag_performance |-> 0]
        ELSE [exc |-> "none", gamma0 |-> p.gamma, Fpc |-> f.Fpc,
              flag_performance |-> p.flag_performance]

first_evaluation(c1, c2) ==
    LET p == perf(pc, gamma0, c1)
        f == pfun(pc, p.gamma, c2)
    IN  IF p.exc /= "none" \/ f.exc /= "none"
        THEN [exc |-> "ZeroDivisionError", gamma0 |-> gamma0, Fpc |-> Fpc,
              flag_performance |-> 0]
        ELSE [exc |-> "none", gamma0 |-> p.gamma, Fpc |-> f.Fpc,
              flag_performance |-> p.flag_performance]

GetPressureInit ==
    /\ status = "running" /\ at = "init"
    /\ \E c1 \in Answers(FALSE), c2 \in Answers(FALSE) :
       \E r \in {first_evaluation(c1, c2)} :
         IF r.exc /= "none"
         THEN Raise
         ELSE /\ gamma0' = r.gamma0
              /\ Fpc' = r.Fpc
              /\ first_flag' = r.flag_performance
              /\ n_eval' = n_eval + 2
              /\ at' = "loop"
              /\ UNCHANGED <<status, ind, pc, n_iter, k_Newton,
                             flag_performance, pc_array, Fpc_array,
                             MR_array, gamma_array, flag_array, pc_start,
                             re_from>>
    /\ UNCHANGED <<cfg, maxit, perf_out, inj_out, sp_out,
                   step_out>>

(***************************************************************************)
(* get_pressure, one turn of the while loop (142-167)                      *)
(***************************************************************************)
LoopCondition == ~tolerance_met(Fpc) /\ n_iter < maxit

loop_body(c1, c2, c3) ==
    LET Fd == pfun(pc + dpc, gamma0, c1)
        b == band(pc - newton_step(k_Newton, Fpc, Fd.Fpc), k_Newton,
                  cfg.ptank, cfg.pamb)
        p == perf(b.pc, gamma0, c2)
        f == pfun(b.pc, p.gamma, c3)
    IN  IF Fd.exc /= "none" \/ p.exc /= "none" \/ f.exc /= "none"
        THEN [exc |-> "ZeroDivisionError", pc |-> pc, k_Newton |-> k_Newton,
              gamma0 |-> gamma0, Fpc |-> Fpc]
        ELSE [exc |-> "none", pc |-> b.pc, k_Newton |-> b.k_Newton,
              gamma0 |-> p.gamma, Fpc |-> f.Fpc]

NewtonIteration ==
    /\ status = "running" /\ at = "loop"
    /\ LoopCondition
    /\ \E c1 \in Answers(FALSE), c2 \in Answers(FALSE), c3 \in Answers(FALSE) :
       \E r \in {loop_body(c1, c2, c3)} :
         IF r.exc /= "none"
         THEN Raise
         ELSE /\ pc' = r.pc
              /\ k_Newton' = r.k_Newton
              /\ gamma0' = r.gamma0
              /\ Fpc' = r.Fpc
              /\ n_iter' = n_iter + 1
              /\ n_eval' = n_eval + 3
              /\ UNCHANGED <<status, ind, at, flag_performance, pc_array,
                             Fpc_array, MR_array, gamma_array, flag_array,
                             pc_start, first_flag, re_from>>
    /\ UNCHANGED <<cfg, maxit, perf_out, inj_out, sp_out,
                   step_out>>

(***************************************************************************)
(* full_range_simulation: get_pressure has returned; the evaluation at the *)
(* returned pc, the record and the flag (265-310), and the next triple.    *)
(***************************************************************************)
\* the flags without the final else
classify_no_default(n, cap, flag) ==
    IF n = cap /\ flag = 1 THEN 2
    ELSE IF n = cap THEN 1
    ELSE IF n = cap + 1 THEN 10
    ELSE IF flag = 1 THEN -1
    ELSE 100

\* the flag of a grid point (optimization.py:297-310)
classify(n, cap, flag) ==
    IF n = cap /\ flag = 1 THEN 2
    ELSE IF n = cap THEN 1
    ELSE IF n = cap + 1 THEN 10
    ELSE IF flag = 1 THEN -1
    ELSE 0

\* an assignment to the whole array
put_all(array, c, v) == [x \in DOMAIN array |-> v]

\* array[ind_Dport, ind_Dinj, ind_Lc] = v (optimization.py:272-310)
put(array, c, v) == [array EXCEPT ![c] = v]

\* the evaluation made for every returned pc
reruns_always(p) == TRUE

\* whether the sweep evaluates the returned pc: `if pc != 0` (line 264)
reruns(p) == p /= 0

StorePoint ==
    /\ status = "running" /\ at = "loop"
    /\ ~LoopCondition
    /\ \E cea \in (IF reruns(pc) THEN Answers(FALSE) ELSE {CEAFail}) :
       \E p \in {perf(pc, gamma0, cea)} :
         IF reruns(pc) /\ p.exc /= "none"
         THEN Raise
         ELSE /\ IF reruns(pc)
                 THEN /\ pc_array' = put(pc_array, ind, pc)
                      /\ Fpc_array' = put(Fpc_array, ind, Fpc)
                      /\ MR_array' = put(MR_array, ind, p.MR)
                      /\ gamma_array' = put(gamma_array, ind, p.gamma)
                      /\ flag_performance' = p.flag_performance
                 ELSE /\ flag_performance' = 0
                      /\ UNCHANGED <<pc_array, Fpc_array, MR_array, gamma_array>>
              /\ flag_array' = put(flag_array, ind,
                                    classify(n_iter, maxit, flag_performance'))
              /\ IF ind = LastCell
                 THEN status' = "returned" /\ ind' = ind
                 ELSE status' = status /\ ind' = NextCell(ind)
              /\ at' = "call"
              \* get_pressure's frame is gone
              /\ k_Newton' = 20
              /\ pc_start' = 0 /\ first_flag' = 0 /\ n_eval' = 0
              /\ re_from' = 0
              /\ UNCHANGED <<pc, Fpc, n_iter, gamma0>>
    /\ UNCHANGED <<cfg, maxit, perf_out, inj_out, sp_out,
                   step_out>>

Next ==
    \/ GetPressureScan
    \/ GetPressureInit
    \/ NewtonIteration
    \/ StorePoint

Spec == Init /\ [][Next]_vars

(***************************************************************************)
(* The sweep with the iteration cap of the program, maxit = 1000, on one   *)
(* input: the oracle answers the scan freely and fails every later call.   *)
(***************************************************************************)
FullCap == [Reference EXCEPT !.oracle = "failsLater", !.itcap = MAXIT]

InitFull == InitWith(FullCap)

SpecFull == InitFull /\ [][Next]_vars

(***************************************************************************)
(* calculate_performance and pressure_fun called directly with the same    *)
(* arguments and the same answer of the oracle, at any of the trial        *)
(* pressures and seeds, at the first grid point of each input.             *)
(***************************************************************************)
PcTrials == {1, 41, 80, 90, 99, 100, 105, 120}

GammaTrials == {0, 12, GammaDefault}

EvaluatePerformance ==
    /\ \E p \in PcTrials, g \in GammaTrials, cea \in CEAAnswers :
         perf_out' = [made |-> TRUE, pc |-> p, gamma0 |-> g, cea |-> cea,
                      out |-> perf(p, g, cea), Fpc |-> pfun(p, g, cea)]
    /\ UNCHANGED <<cfg, status, ind, at, pc, Fpc, n_iter, maxit, k_Newton,
                   gamma0, flag_performance, pc_array, Fpc_array, MR_array,
                   gamma_array, flag_array, pc_start, first_flag, n_eval,
                   re_from, inj_out, sp_out,
                   step_out>>

SpecPerf == Init /\ [][EvaluatePerformance]_vars

(***************************************************************************)
(* The solver with an oracle that is a function of its arguments, on the   *)
(* program's evaluator and on linear residuals, and get_pressure entered   *)
(* past the scan (optimization.py:132-169): started again at the pc a      *)
(* converged solve returned, with the gamma it returned as seed.           *)
(***************************************************************************)
Slopes == {-3, -1, 1, 2}

Roots == {1, 30, 41, 75, 85, 99, 100}

\* the pressures and the seeds a deterministic oracle may fail at
FailPressures == {41, 75, 80, 90, 100}

FailSeeds == {{}, {0}, {12}, {GammaDefault}}

FunctionConfigs ==
    {[Reference EXCEPT !.oracle = "function", !.failsAt = S,
                       !.failsSeed = G, !.eps = e, !.pamb = pa] :
        S \in SUBSET FailPressures, G \in FailSeeds,
        e \in {EpsGiven(2), EpsAdapt}, pa \in {0, 70}}

DetConfigs ==
    {[c EXCEPT !.oracle = "answers"] : c \in Variations}
    \cup FunctionConfigs
    \cup {[Reference EXCEPT !.oracle = "answers", !.pamb = pa,
                            !.lin = Linear(k, t)] :
            k \in Slopes, t \in Roots, pa \in {0, 70}}

InitDet == \E c \in DetConfigs : InitWith(c)

Reinvoke ==
    /\ status = "running" /\ at = "loop"
    /\ ~LoopCondition
    /\ pc_start /= 0 /\ tolerance_met(Fpc)
    /\ re_from = 0
    /\ re_from' = pc
    /\ n_iter' = 0 /\ k_Newton' = 20
    /\ first_flag' = 0 /\ n_eval' = 0
    /\ at' = "init"
    /\ UNCHANGED <<cfg, status, ind, pc, Fpc, maxit, gamma0, flag_performance,
                   pc_array, Fpc_array, MR_array, gamma_array, flag_array,
                   pc_start, perf_out, inj_out, sp_out,
                   step_out>>

NextDet ==
    \/ Next
    \/ Reinvoke

SpecDet == InitDet /\ [][NextDet]_vars

(***************************************************************************)
(* Injector.massflow called directly, at any of the trial pressures,       *)
(* temperatures and discharge coefficients.                                *)
(***************************************************************************)
P1Trials == {40, 50, 100}

P2Trials == {30, 41, 50, 60, 100, 120}

TTrials == {288, 320}

CDTrials == {0, 1, 2}

EvaluateMassflow ==
    /\ \E p1 \in P1Trials, p2 \in P2Trials, T \in TTrials, cD \in CDTrials :
         inj_out' = [made |-> TRUE, p1 |-> p1, p2 |-> p2, T |-> T, cD |-> cD,
                     pr |-> Lookups(p1, p2, T),
                     out |-> massflow(p1, p2, T, cD, Lookups(p1, p2, T))]
    /\ UNCHANGED <<cfg, status, ind, at, pc, Fpc, n_iter, maxit, k_Newton,
                   gamma0, flag_performance, pc_array, Fpc_array, MR_array,
                   gamma_array, flag_array, pc_start, first_flag, n_eval,
                   re_from, perf_out, sp_out,
                   step_out>>

SpecInj == Init /\ [][EvaluateMassflow]_vars

(***************************************************************************)
(* The decision of starting_pressure (optimization.py:62-73) on residuals  *)
(* given sample by sample, over the scan grid of each input.               *)
(***************************************************************************)
ResidualTrials == {-2, 0, 1, Sentinel}

DecideStart ==
    /\ ~sp_out.made
    /\ \E Fpcs \in [1..(2 * ScanN - 1) -> ResidualTrials] :
         sp_out' = [made |-> TRUE, range |-> pc_range(cfg.ptank, cfg.pamb),
                    Fpcs |-> Fpcs,
                    out |-> best_sample(pc_range(cfg.ptank, cfg.pamb), Fpcs)]
    /\ UNCHANGED <<cfg, status, ind, at, pc, Fpc, n_iter, maxit, k_Newton,
                   gamma0, flag_performance, pc_array, Fpc_array, MR_array,
                   gamma_array, flag_array, pc_start, first_flag, n_eval,
                   re_from, perf_out, inj_out, step_out>>

InitScan == \E c \in Variations : InitWith(c)

SpecScan == InitScan /\ [][DecideStart]_vars

(***************************************************************************)
(* The Newton step (optimization.py:146-151) on a damping factor and two   *)
(* residuals given directly.                                               *)
(***************************************************************************)
KTrials == {20, 19, 1}

FpcTrials == {-40, -3, 0, 2, 7, Sentinel}

FdpcTrials == {-43, -3, 0, 2, 5, 9, Sentinel}

EvaluateStep ==
    /\ \E k \in KTrials, F \in FpcTrials, Fd \in FdpcTrials :
         step_out' = [made |-> TRUE, k_Newton |-> k, Fpc |-> F, Fdpc |-> Fd,
                      out |-> newton_step(k, F, Fd)]
    /\ UNCHANGED <<cfg, status, ind, at, pc, Fpc, n_iter, maxit, k_Newton,
                   gamma0, flag_performance, pc_array, Fpc_array, MR_array,
                   gamma_array, flag_array, pc_start, first_flag, n_eval,
                   re_from, perf_out, inj_out, sp_out>>

SpecStep == Init /\ [][EvaluateStep]_vars

(***************************************************************************)
(* Properties                                                              *)
(***************************************************************************)
\* the step that records a grid point: get_pressure has returned and the
\* sweep writes the point's record and flag
Records == at = "loop" /\ at' = "call"

\* get_pressure's loop has stopped on the tolerance
StoppedOnTolerance == tolerance_met(Fpc)

\* C1: full_range_simulation always runs to completion: no exception escapes
\* from a grid point's solve, whatever the oracles answer.
C1_NoExceptionEscapes == status /= "raised"

\* C2: with the equilibrium oracle failing on every call, once the sweep has
\* ended every grid point has flag -1 or 2 (and none has flag 0).
C2_FailingOracleFlags ==
    (cfg.oracle = "fails" /\ status /= "running")
        => \A c \in Cells : flag_array[c] \in {-1, 2}

\* C3: with the ambient pressure above the tank pressure, every grid point
\* that has been given a flag has flag 10.
C3_AmbientAboveTankFlag10 ==
    cfg.pamb > cfg.ptank => \A c \in Cells : flag_array[c] \in {100, 10}

\* C4: a recorded grid point whose flag is not 10 has pamb < pc < ptank, and
\* one whose flag is 10 has pc = 0; stated here for the ambient pressures
\* below the tank pressure, which the claim covers.
C4_StoredPressureInBand ==
    (0 <= cfg.pamb /\ cfg.pamb < cfg.ptank)
        => \A c \in Cells :
             /\ flag_array[c] \notin {100, 10}
                    => (cfg.pamb < pc_array[c] /\ pc_array[c] < cfg.ptank)
             /\ flag_array[c] = 10 => pc_array[c] = 0

\* C5: a grid point is given flag 0 if and only if its solve started from a
\* nonzero guess and stopped because |Fpc| <= 0.1, at whatever iteration
\* count from 0 to the cap.
C5_ConvergedIffTolerance ==
    [][Records => (flag_array'[ind] = 0
                      <=> (pc_start /= 0 /\ StoppedOnTolerance))]_vars

\* C6: in get_pressure, past the scan: the NoSolution outcome (pc = 0,
\* residual 0, n_iter = maxit + 1) holds if and only if starting_pressure
\* returned 0, and then no evaluator call was made after the scan and no
\* Newton iteration can run; after a nonzero guess the first evaluation has
\* been made and 0 <= n_iter <= maxit.
C6_NoSolutionIffZeroStart ==
    at = "loop" =>
        /\ (pc = 0 /\ Fpc = 0 /\ n_iter = maxit + 1) <=> pc_start = 0
        /\ pc_start = 0 => (n_eval = 0 /\ ~LoopCondition)
        /\ pc_start /= 0 => (n_eval >= 2 /\ 0 <= n_iter /\ n_iter <= maxit)

C6_Witness_NoSolution ==
    at = "loop" /\ pc_start = 0 /\ n_iter = maxit + 1 /\ n_eval = 0

\* C7: the Newton loop of get_pressure runs at most 100 iterations.
C7_AtMost100Iterations == (at = "loop" /\ pc_start /= 0) => n_iter <= 100

\* C8: calculate_performance raises no division fault and returns a finite
\* MR >= 0; with a fuel mass flow <= 0 it returns MR = 0 and flag 1 without
\* calling the equilibrium oracle.
C8_ZeroFuelFlowGuard ==
    (perf_out.made /\ perf_out.out.exc = "none")
        => /\ perf_out.out.MR.k = "fin" /\ perf_out.out.MR.v >= 0
           /\ perf_out.out.mdot_fuel <= 0
                => /\ perf_out.out.MR = Fin(0)
                   /\ perf_out.out.flag_performance = 1
                   /\ ~perf_out.out.called

\* C9: a solve that reached the cap without meeting the tolerance is given
\* flag 2 when the sweep's evaluation at the final pc flags chemistry failure
\* and flag 1 otherwise, and no other grid point is given flag 1 or 2.
C9_CapFlags ==
    [][Records =>
         /\ (n_iter = maxit /\ ~StoppedOnTolerance)
                => flag_array'[ind] = (IF flag_performance' = 1 THEN 2 ELSE 1)
         /\ flag_array'[ind] \in {1, 2}
                => (n_iter = maxit /\ ~StoppedOnTolerance)]_vars

\* C10: when, after a nonzero starting guess, the first evaluation of
\* get_pressure flags chemistry failure, the grid point is given flag -1.
C10_FirstFailureChemistryDiverged ==
    [][(Records /\ pc_start /= 0 /\ first_flag = 1)
           => flag_array'[ind] = -1]_vars

\* residuals all >= 0 or all <= 0; residuals none of which is the sentinel
SingleSigned(Fpcs) ==
    \/ \A i \in DOMAIN Fpcs : Fpcs[i] >= 0
    \/ \A i \in DOMAIN Fpcs : Fpcs[i] <= 0

SentinelFree(Fpcs) == \A i \in DOMAIN Fpcs : Fpcs[i] /= Sentinel

\* C11: on residuals none of which is the sentinel, starting_pressure
\* returns 0 if and only if the residuals are single-signed over the whole
\* scan grid (all >= 0 or all <= 0), and otherwise a scan point of least
\* |residual|.
C11_ZeroIffSingleSigned ==
    (sp_out.made /\ SentinelFree(sp_out.Fpcs))
        => /\ sp_out.out.exc = "none"
           /\ sp_out.out.pc_best = 0 <=> SingleSigned(sp_out.Fpcs)
           /\ ~SingleSigned(sp_out.Fpcs)
                => \E i \in DOMAIN sp_out.Fpcs :
                     /\ sp_out.range[i] = sp_out.out.pc_best
                     /\ \A j \in DOMAIN sp_out.Fpcs :
                          Abs(sp_out.Fpcs[i]) <= Abs(sp_out.Fpcs[j])

C11_Witness_SignChange ==
    /\ sp_out.made /\ SentinelFree(sp_out.Fpcs)
    /\ ~SingleSigned(sp_out.Fpcs)
    /\ sp_out.out.pc_best /= 0

\* a linear residual whose root lies inside the scanned range, below the
\* tank pressure
InsideScan ==
    /\ cfg.lin.on
    /\ cfg.pamb < cfg.ptank
    /\ pc_range(cfg.ptank, cfg.pamb)[1] < cfg.lin.pc_true
    /\ cfg.lin.pc_true < cfg.ptank

\* C12: on the linear residual k*(pc - pc_true), k /= 0 of either sign, with
\* pc_true inside the scanned range (above its lowest sample, below the tank
\* pressure), get_pressure makes at most one Newton iteration and returns
\* pc = pc_true with |Fpc| <= 0.1.
C12_LinearResidualConverges ==
    (InsideScan /\ at = "loop" /\ re_from = 0)
        => /\ pc_start /= 0
           /\ n_iter <= 1
           /\ ~LoopCondition => (pc = cfg.lin.pc_true /\ tolerance_met(Fpc))

C12_Witness_OneIteration ==
    /\ InsideScan /\ at = "loop" /\ re_from = 0
    /\ cfg.lin.k < 0
    /\ n_iter = 1 /\ pc = cfg.lin.pc_true /\ tolerance_met(Fpc)

C14_SeedNotCarried ==
    (status = "running" /\ at = "call") => gamma0 = cfg.gamma0

\* C15: calculate_performance, having called the oracle: on failure Tc, MW,
\* gamma, cs and CF_vac are 0 and the flag is 1, on success they are the
\* oracle's five values and the flag is 0; the flag is 0 or 1 always.
C15_OracleFailureZeroes ==
    (perf_out.made /\ perf_out.out.exc = "none")
        => /\ perf_out.out.flag_performance \in {0, 1}
           /\ (perf_out.out.called /\ ~perf_out.cea.ok)
                => /\ perf_out.out.Tc = 0 /\ perf_out.out.MW = 0
                   /\ perf_out.out.gamma = 0 /\ perf_out.out.cs = 0
                   /\ perf_out.out.CF_vac = 0
                   /\ perf_out.out.flag_performance = 1
           /\ (perf_out.out.called /\ perf_out.cea.ok)
                => /\ perf_out.out.Tc = perf_out.cea.Tc
                   /\ perf_out.out.MW = perf_out.cea.MW
                   /\ perf_out.out.gamma = perf_out.cea.gamma
                   /\ perf_out.out.cs = perf_out.cea.cs
                   /\ perf_out.out.CF_vac = perf_out.cea.CF_vac
                   /\ perf_out.out.flag_performance = 0

C15_Witness_OracleFailed ==
    /\ perf_out.made /\ perf_out.out.exc = "none"
    /\ perf_out.out.called /\ ~perf_out.cea.ok
    /\ perf_out.out.flag_performance = 1

\* C16: with the same arguments and the same answer of the oracle,
\* pressure_fun returns mdot*cs/At - pc where calculate_performance returns
\* flag 0 and the sentinel where it returns flag 1, and raises nothing where
\* calculate_performance raises nothing.
C16_ResidualOrSentinel ==
    (perf_out.made /\ perf_out.out.exc = "none")
        => /\ perf_out.Fpc.exc = "none"
           /\ perf_out.out.flag_performance = 0
                => perf_out.Fpc.Fpc
                     = (perf_out.out.mdot * perf_out.out.cs) \div At
                       - perf_out.pc
           /\ perf_out.out.flag_performance = 1
                => perf_out.Fpc.Fpc = Sentinel

C16_Witness_Sentinel ==
    /\ perf_out.made /\ perf_out.out.exc = "none"
    /\ perf_out.out.called /\ perf_out.out.flag_performance = 1
    /\ perf_out.Fpc.Fpc = Sentinel

\* C17: Injector.massflow raises for no p1, p2, T: no failure of a property
\* lookup reaches the caller.
C17_MassflowNeverRaises == inj_out.made => inj_out.out.exc = "none"

\* the SPI flux, the HEM flux and the weight k (in hundredths) of the direct
\* call of massflow, from the answers of its lookups
SPI_value == inj_out.cD * ISqrt(2 * inj_out.pr.dL.v * (inj_out.p1 - inj_out.p2))

HEM_value ==
    inj_out.cD
      * (IF inj_out.pr.d2.ood THEN inj_out.pr.dV.v ELSE inj_out.pr.d2.v)
      * ISqrt(2 * Abs((IF inj_out.pr.h1.ood THEN inj_out.pr.hL.v
                       ELSE inj_out.pr.h1.v)
                      - (IF inj_out.pr.h2.ood THEN inj_out.pr.hV.v
                         ELSE inj_out.pr.h2.v)))

Dyer_k == ISqrt((10000 * (inj_out.p1 - inj_out.p2))
                  \div (inj_out.pr.pV.v - inj_out.p2))

\* C18: the flux of Injector.massflow is 0 when p1 <= p2, the SPI value
\* CD*sqrt(2*rho_liquid_sat*(p1 - p2)) when p1 > p2 and the saturation
\* pressure is <= p2, the Dyer blend (k*SPI + HEM)/(k + 1) when p1 > p2 and
\* the saturation pressure is > p2, and never negative for CD >= 0.
C18_FluxByRegime ==
    (inj_out.made /\ inj_out.out.exc = "none")
        => /\ inj_out.p1 <= inj_out.p2 => inj_out.out.mdot = 0
           /\ (inj_out.p1 > inj_out.p2 /\ inj_out.pr.pV.v <= inj_out.p2)
                => inj_out.out.mdot = SPI_value
           /\ (inj_out.p1 > inj_out.p2 /\ inj_out.pr.pV.v > inj_out.p2)
                => inj_out.out.mdot
                     = (Dyer_k * SPI_value + 100 * HEM_value)
                         \div (Dyer_k + 100)
           /\ inj_out.cD >= 0 => inj_out.out.mdot >= 0

C18_Witness_SPI ==
    /\ inj_out.made /\ inj_out.out.exc = "none"
    /\ inj_out.p1 > inj_out.p2 /\ inj_out.pr.pV.v <= inj_out.p2
    /\ inj_out.out.mdot > 0

\* C19: when full_range_simulation has returned, every cell of flag_array
\* holds one of 0, 1, -1, 2, 10 (none holds 100), so the cells holding these
\* five values number the product of the three range lengths.
C19_EveryCellFlagged ==
    status = "returned"
        => /\ \A c \in Cells : flag_array[c] \in {0, 1, -1, 2, 10}
           /\ Cardinality({c \in Cells : flag_array[c] \in {0, 1, -1, 2, 10}})
                = Len(Dport_Dt_range) * Len(Dinj_Dt_range) * Len(Lc_Dt_range)

C19_Witness_Returned ==
    status = "returned" /\ flag_array[FirstCell] /= flag_array[LastCell]

\* C20: a step of the sweep at grid point ind changes no cell of another
\* grid point in any output array.
C20_OnlyOwnCellWritten ==
    [][\A c \in Cells :
         c /= ind
            => /\ pc_array'[c] = pc_array[c]
               /\ Fpc_array'[c] = Fpc_array[c]
               /\ MR_array'[c] = MR_array[c]
               /\ gamma_array'[c] = gamma_array[c]
               /\ flag_array'[c] = flag_array[c]]_vars

C20_Witness_TwoPointsRecorded ==
    /\ status = "returned"
    /\ pc_array[FirstCell] /= 0 /\ pc_array[LastCell] /= 0
    /\ pc_array[FirstCell] /= pc_array[LastCell]

\* a turn of get_pressure's while loop
Iterates == at = "loop" /\ at' = "loop" /\ n_iter' = n_iter + 1

\* C21: after each Newton iteration either k_Newton is unchanged and the new
\* pc, the step itself, lies inside the band (pamb, 0.9*ptank), or k_Newton
\* is lower by exactly 0.05 and the new pc is a fallback (0.75*ptank, or the
\* low-side max(0.2*ptank, 1.5*pamb)); k_Newton never increases.
C21_BandOrFallback ==
    [][Iterates =>
         /\ k_Newton' <= k_Newton
         /\ k_Newton' = k_Newton
              => (cfg.pamb < pc' /\ 10 * pc' < 9 * cfg.ptank)
         /\ k_Newton' /= k_Newton
              => /\ k_Newton' = k_Newton - 1
                 /\ pc' \in {RoundDiv(3 * cfg.ptank, 4),
                             Max(RoundDiv(2 * cfg.ptank, 10),
                                 RoundDiv(3 * cfg.pamb, 2))}]_vars

\* C28: the gamma seed get_pressure and full_range_simulation hand to the
\* evaluator is never 0.
C28_SeedNeverZero == gamma0 /= 0

\* C29: no Newton iteration starts from the sentinel: while the loop of
\* get_pressure is to run, Fpc is not the residual of a failed evaluation.
C29_NoSentinelInUpdate ==
    (status = "running" /\ at = "loop" /\ LoopCondition) => Fpc /= Sentinel

\* the samples of the direct call that survive the mask
Survivors == {i \in DOMAIN sp_out.Fpcs : sp_out.Fpcs[i] /= Sentinel}

\* C22: starting_pressure decides on the surviving samples only and raises
\* nothing: it returns 0 whenever the surviving residuals do not change sign
\* (all >= 0 or all <= 0), also when no sample survives.
C22_NoSignChangeReturnsZero ==
    sp_out.made
        => /\ sp_out.out.exc = "none"
           /\ (\/ \A i \in Survivors : sp_out.Fpcs[i] >= 0
               \/ \A i \in Survivors : sp_out.Fpcs[i] <= 0)
                => sp_out.out.pc_best = 0

\* C23: with a positive fuel mass flow the MR calculate_performance returns
\* is mdot_ox/mdot_fuel of the same result, whether or not the oracle
\* succeeds.
C23_MRIsTheRatio ==
    (perf_out.made /\ perf_out.out.exc = "none"
     /\ perf_out.out.mdot_fuel > 0)
        => perf_out.out.MR
             = Fin((1000 * perf_out.out.mdot_ox) \div perf_out.out.mdot_fuel)

\* C27: during a solve k_Newton stays within (0, 1].
C27_DampingPositive ==
    (at = "loop" /\ pc_start /= 0) => (0 < k_Newton /\ k_Newton <= 20)

\* C24: a grid point given flag 10 keeps 0 in its cell of every output array
\* other than flag_array, the evaluator not being run for it; for a grid
\* point whose returned pc is nonzero the evaluator is run at that pc with
\* the returned seed, and pc, the residual and its result are stored.
C24_RecordOnlyForNonzeroPc ==
    [][Records =>
         /\ flag_array'[ind] = 10
              => /\ pc_array'[ind] = 0 /\ Fpc_array'[ind] = 0
                 /\ MR_array'[ind] = Fin(0) /\ gamma_array'[ind] = 0
         /\ pc /= 0
              => \E cea \in CEAAnswers :
                   /\ pc_array'[ind] = pc /\ Fpc_array'[ind] = Fpc
                   /\ MR_array'[ind] = perf(pc, gamma0, cea).MR
                   /\ gamma_array'[ind] = perf(pc, gamma0, cea).gamma
                   /\ flag_performance'
                        = perf(pc, gamma0, cea).flag_performance]_vars

C24_Witness_BothKinds ==
    /\ flag_array[FirstCell] = 10 /\ pc_array[FirstCell] = 0
    /\ flag_array[LastCell] \notin {100, 10} /\ pc_array[LastCell] /= 0
    /\ gamma_array[LastCell] /= 0

\* C30: with pamb >= 0 and ptank > pamb every pressure the evaluator is
\* called at is > 0: the samples of the scan, the starting guess, every
\* Newton iterate with its probe pc + 10, and the returned pc the sweep
\* evaluates.
C30_EvaluatedPressurePositive ==
    (cfg.pamb >= 0 /\ cfg.ptank > cfg.pamb)
        => /\ \A i \in 1..(2 * ScanN - 1) :
                pc_range(cfg.ptank, cfg.pamb)[i] > 0
           /\ at = "init" => pc > 0
           /\ (at = "loop" /\ pc_start /= 0) => (pc > 0 /\ pc + dpc > 0)

C30_Witness_LowFallback ==
    /\ cfg.pamb = 0 /\ at = "loop" /\ pc_start /= 0
    /\ k_Newton < 20
    /\ pc = Max(RoundDiv(2 * cfg.ptank, 10), RoundDiv(3 * cfg.pamb, 2))

\* C25: the Newton step never divides by zero: with Fdpc = Fpc the derivative
\* is 0 and 0.01 is used in its place, so the step is k_Newton*Fpc/0.01;
\* otherwise the step is k_Newton*Fpc over the derivative (Fdpc - Fpc)/dpc
\* as computed (to the nearest Pa; by sign where a residual is the sentinel).
C25_ZeroSlopeReplaced ==
    step_out.made =>
        LET k == step_out.k_Newton
            F == step_out.Fpc
            d == step_out.Fdpc - step_out.Fpc
            out == step_out.out
        IN  /\ (d = 0 /\ Abs(F) <= Huge \div (5 * k)) => out = 5 * k * F
            /\ (d = 0 /\ Abs(F) > Huge \div (5 * k)) => out = Sign(F) * Huge
            /\ (d /= 0 /\ Abs(F) < 100000 /\ Abs(d) < 100000)
                 => 2 * Abs(20 * d * out - dpc * k * F) <= Abs(20 * d)
            /\ d /= 0 => out * Sign(F) * Sign(d) >= 0

C25_Witness_ZeroSlope ==
    /\ step_out.made /\ step_out.Fdpc = step_out.Fpc /\ step_out.Fpc = 2
    /\ step_out.k_Newton = 19 /\ step_out.out = 190

\* C26: with an oracle that is a function of its inputs no grid point is
\* given flag -1: when get_pressure returns a nonzero pc below the
\* iteration cap, the sweep's evaluation at (pc, gamma0) has flag 0.
C26_NoDivergedFlag ==
    [][Records =>
         /\ flag_array'[ind] /= -1
         /\ (n_iter < maxit /\ pc /= 0) => flag_performance' = 0]_vars

C26_Witness_FailedSampleConverged ==
    /\ cfg.oracle = "function" /\ at = "call" /\ ind = LastCell
    /\ \E i \in 1..(2 * ScanN - 1) :
         pc_range(cfg.ptank, cfg.pamb)[i] \in cfg.failsAt
    /\ flag_array[FirstCell] = 0 /\ pc_array[FirstCell] /= 0
    /\ n_iter < maxit /\ flag_performance = 0

====
